---- MODULE Spec2Model ----
(***************************************************************************)
(* TUI-LLM-Studio: the 4-bit weight codec (app/core/quantized_model.py),   *)
(* the sampling engine and its thread/queue stream                          *)
(* (app/core/llm_engine_torch.py with app/screens/chat_screen.py) and the   *)
(* prompt_toolkit front end (ui/app.py with model/inference.py).            *)
(*                                                                          *)
(* Four specifications share the module, each over its own variables:       *)
(*   SpecCodec   pack_i4 / unpack_i4 / Q4Linear / dequantize_q4             *)
(*   SpecFilter  LLMEngine._apply_top_k / _apply_top_p                      *)
(*   SpecGen     LLMEngine.generate, generate_worker and its consumer       *)
(*   SpecUI      ChatUI: Enter, Ctrl-C, _generate_response, _generate_sync  *)
(***************************************************************************)
EXTENDS Integers, Sequences, FiniteSets, TLC

VARIABLES
    \* ---- codec ----------------------------------------------------------
    input,        \* what the run started from: int4 values, bytes or a dense layer
    tensor,       \* the int8 tensor last given to pack_i4 / returned by unpack_i4
    packed,       \* the uint8 tensor last returned by pack_i4 / given to unpack_i4
    ops,          \* the codec calls made so far, in order
    q_layer,      \* the Q4Linear object under test (NoLayer before construction)
    fl,           \* the frame of the last Q4Linear.from_linear call
    deq,          \* the outcome of the last dequantize_q4 call
    disk,         \* the .q4.pt file at path (NoFile when there is none)
    io,           \* the save_q4_weights / load_q4_weights calls made, in order
    call,         \* the arguments of a direct dequantize_q4 call
    sess,         \* the forward call of every inference session on the shared layer
    \* ---- filters --------------------------------------------------------
    f_in,         \* the logits row the run started from
    f_logits,     \* the logits tensor, which the filters mask in place
    f_top_k,      \* top_k
    f_top_p,      \* top_p, in hundredths
    f_ops,        \* the filters applied so far, in order
    \* ---- LLMEngine.generate and its consumer ----------------------------
    gen_params,   \* max_new_tokens, temperature, top_k, top_p of the engine
    consumer,     \* who iterates generate: "ChatScreen" or another caller
    hpc,          \* the consumer's handler: idle, iterating, done
    is_generating,\* ChatScreen.is_generating
    response_text,\* the fragments the consumer has appended to response_text
    chat_messages,\* the messages ChatManager.add_message has persisted
    notified,     \* the error notifications the handler has raised
    gpc,          \* where the generate coroutine stands
    token_queue,  \* queue.Queue between generate_worker and generate
    yielded,      \* the fragments generate has yielded, in order
    last_get,     \* the last item token_queue.get returned
    joined,       \* thread.join() has returned
    wpc,          \* where the generate_worker thread stands
    wstep,        \* decode iterations the worker has completed
    exc,          \* the exception generate_worker caught ("none" if none)
    enqueued,     \* every item the worker has put, in order
    \* ---- ChatUI ---------------------------------------------------------
    generating,       \* ChatUI.generating
    current_response, \* ChatUI.current_response: the tokens appended, in order
    status,           \* the text _update_status showed last (transliterated)
    ui_messages,      \* the messages chat_manager.add_message has stored
    ui_errors,        \* "Ошибка генерации" entries added to the history
    tasks,            \* the _generate_response tasks, in creation order
    jobs,             \* the _generate_sync executor jobs, in creation order
    cancelled,        \* the jobs that were running when Ctrl-C cleared the flag
    \* ---- threads --------------------------------------------------------
    scorer_threads    \* the threads on which a call of the scorer has run

store_vars == <<disk, io, call>>
codec_vars == <<input, tensor, packed, ops, q_layer, fl, deq, store_vars, sess>>
filter_vars == <<f_in, f_logits, f_top_k, f_top_p, f_ops>>
screen_vars == <<consumer, hpc, is_generating, response_text, chat_messages, notified>>
stream_vars == <<gpc, token_queue, yielded, last_get, joined>>
worker_vars == <<wpc, wstep, exc, enqueued>>
gen_vars == <<gen_params, screen_vars, stream_vars, worker_vars>>
ui_vars == <<generating, current_response, status, ui_messages, ui_errors, tasks,
             jobs, cancelled>>
vars == <<codec_vars, filter_vars, gen_vars, ui_vars, scorer_threads>>
not_codec == <<filter_vars, gen_vars, ui_vars, scorer_threads>>
not_filter == <<codec_vars, gen_vars, ui_vars, scorer_threads>>
not_gen == <<codec_vars, filter_vars, ui_vars, scorer_threads>>
not_ui == <<codec_vars, filter_vars, gen_vars, scorer_threads>>

(***************************************************************************)
(* Bounds of the model.                                                     *)
(***************************************************************************)
MaxVals == 2       \* longest int4 sequence handed to pack_i4
MaxBytes == 1      \* longest byte sequence handed to unpack_i4
MaxOps == 2        \* pack_i4 / unpack_i4 calls in one run
MaxElems == 4      \* largest rows * cols of a dense layer
MaxGroupSize == 4  \* largest Q4Params.group_size
MaxW == 2          \* dense weights are the integers -MaxW .. MaxW
VocabSize == 3     \* logits.size(-1): token ids 1 .. VocabSize
MaxTopK == 4       \* largest top_k (above VocabSize, so that the clamp acts)
MaxNewTokens == 2  \* largest gen_params["max_new_tokens"]
MaxSends == 2      \* messages the user sends in ChatUI
MaxChars == 2      \* longest response ModelInference.generate streams
MaxFileLen == 2    \* longest buffer of a .q4.pt file / a dequantize_q4 call
NumSessions == 2   \* inference sessions that share one Q4Linear

\* ---------------------------------------------------------------- helpers
Min(a, b) == IF a < b THEN a ELSE b
Abs(x) == IF x < 0 THEN -x ELSE x
SeqsUpTo(S, n) == UNION {[1..k -> S] : k \in 0..n}
Max(a, b) == IF a > b THEN a ELSE b
\* python: a slice bound i on a sequence of length n (negative counts from the end)
PyIndex(i, n) == IF i < 0 THEN Max(i + n, 0) ELSE Min(i, n)
\* python s[start:end]: the 1-based positions it selects, and the selected values
SlicePos(n, start, end) == (PyIndex(start, n) + 1)..PyIndex(end, n)
Slice(s, start, end) ==
    LET lo == PyIndex(start, Len(s))
        hi == PyIndex(end, Len(s))
    IN IF lo >= hi THEN <<>> ELSE [i \in 1..(hi - lo) |-> s[lo + i]]
\* python a // b (floor division), b # 0
PyFloorDiv(a, b) == IF b > 0 THEN a \div b ELSE (-a) \div (-b)
RECURSIVE Flatten(_)
Flatten(ss) == IF ss = <<>> THEN <<>> ELSE Head(ss) \o Flatten(Tail(ss))
RECURSIVE SeqMax(_)
SeqMax(s) == IF s = <<>> THEN 0
             ELSE LET m == SeqMax(Tail(s)) IN IF Head(s) > m THEN Head(s) ELSE m

(***************************************************************************)
(* Q4Params: qmin, qmax of signed 4-bit.                                    *)
(***************************************************************************)
qmin == -8
qmax == 7
Int4 == qmin..qmax
Byte == 0..255

(***************************************************************************)
(* pack_i4: mask each value to 4 bits (two's complement nibble), pad an odd *)
(* length with one zero, low nibble = even index, high nibble = odd index.  *)
(***************************************************************************)
Mask4(x) == x % 16

PackByte(low, high) == (Mask4(low) + (Mask4(high) * 16)) % 256

pack_i4(t) ==
    LET masked == [i \in 1..Len(t) |-> Mask4(t[i])]
        padded == IF Len(masked) % 2 = 1 THEN Append(masked, 0) ELSE masked
    IN [j \in 1..(Len(padded) \div 2) |-> PackByte(padded[2 * j - 1], padded[2 * j])]

(***************************************************************************)
(* unpack_i4: low nibble then high nibble of every byte, each turned into a *)
(* signed value by the offset (nibble & 0xF) - 8.                           *)
(***************************************************************************)
ToSignedNoOffset(nib) == Mask4(nib)

ToSigned(nib) == Mask4(nib) - 8

unpack_i4(p) ==
    [i \in 1..(2 * Len(p)) |->
        IF i % 2 = 1 THEN ToSigned(p[(i + 1) \div 2] % 16)
        ELSE ToSigned((p[i \div 2] \div 16) % 16)]

(***************************************************************************)
(* Numbers.  A weight is an integer; a scale is held in sevenths (the value *)
(* max|w| / qmax is m/7, torch.ones is 7/7), so a dequantized element       *)
(* level * scale + zero is an integer number of sevenths.  A python float   *)
(* and a 0-d tensor are told apart by "type": only a tensor has .to().      *)
(***************************************************************************)
TensorScalar(n) == [type |-> "tensor", num |-> n]
PyFloat(n) == [type |-> "float", num |-> n]
HasTo(x) == x.type = "tensor"

(***************************************************************************)
(* torch.round(w / scale).clamp(qmin, qmax) for scale = m/7 in float32.     *)
(* The exact quotient is 7w/m.  An exact tie (7|w|/m = k + 1/2) needs m     *)
(* even and |w| = m/2, so it is 3.5; for m = 2 and m = 4 (every tie of the  *)
(* weights modelled here) float32 rounds m/7 up, the quotient is 3.4999998  *)
(* and torch.round gives 3: a tie goes towards zero.                        *)
(***************************************************************************)
Clamp(x, lo, hi) == IF x < lo THEN lo ELSE IF x > hi THEN hi ELSE x

QuantLevel(w, m) ==
    LET num == qmax * Abs(w)
        mag == IF 2 * (num % m) > m THEN (num \div m) + 1 ELSE num \div m
    IN Clamp(IF w < 0 THEN -mag ELSE mag, qmin, qmax)

(***************************************************************************)
(* Q4Linear.__init__: zero-filled packed buffer of (n + 1) // 2 bytes, one  *)
(* scale (1.0) and one zero (0.0) per group.                                *)
(***************************************************************************)
NoLayer ==
    [err |-> "unbuilt", in_features |-> 0, out_features |-> 0, group_size |-> 0,
     qweight |-> <<>>, scales |-> <<>>, zeros |-> <<>>,
     has_bias |-> FALSE, bias |-> <<>>]

Raised(e) == [NoLayer EXCEPT !.err = e]

Q4Linear_init(in_f, out_f, has_bias, gs) ==
    IF gs = 0 THEN Raised("ZeroDivisionError")               \* line 96: // 0
    ELSE LET n == in_f * out_f
             groups == PyFloorDiv(n + gs - 1, gs)
         IN IF PyFloorDiv(n + 1, 2) < 0 \/ groups < 0          \* torch.zeros / ones
            THEN Raised("RuntimeError")                       \* of a negative size
            ELSE [err |-> "none", in_features |-> in_f, out_features |-> out_f,
                  group_size |-> gs,
                  qweight |-> [i \in 1..((n + 1) \div 2) |-> 0],
                  scales |-> [i \in 1..groups |-> 7],
                  zeros |-> [i \in 1..groups |-> 0],
                  has_bias |-> has_bias,
                  bias |-> IF has_bias THEN [i \in 1..out_f |-> 0] ELSE <<>>]

(***************************************************************************)
(* Q4Linear.from_linear.  The frame holds the locals of the call: the       *)
(* levels q_int of every group processed, qweight_packed, scales_list,      *)
(* zeros_list, and how the call ended ("returned" or the exception and the  *)
(* line that raised it).                                                    *)
(***************************************************************************)
NoFrame ==
    [status |-> "none", line |-> 0, q_int |-> <<>>, qweight_packed |-> <<>>,
     scales_list |-> <<>>, zeros_list |-> <<>>]

RECURSIVE FromLinearLoop(_, _, _, _, _)
FromLinearLoop(g, groups, w, gs, fr) ==
    IF g >= groups
    THEN IF fr.qweight_packed = <<>>
         THEN [fr EXCEPT !.status = "RuntimeError", !.line = 145]   \* torch.cat([])
         ELSE [fr EXCEPT !.status = "returned", !.line = 150]
    ELSE
    LET start == g * gs
        end == Min(start + gs, Len(w))
        w_group == Slice(w, start, end)
    IN IF w_group = <<>>
       THEN [fr EXCEPT !.status = "RuntimeError", !.line = 133]      \* max() of empty
       ELSE
       LET m == SeqMax([i \in 1..Len(w_group) |-> Abs(w_group[i])])
           \* line 134: python max(scale, 1e-6) is the float 1e-6 iff 1e-6 > scale
           scale == IF m = 0 THEN PyFloat(0) ELSE TensorScalar(m)
           q_int == [i \in 1..Len(w_group) |->
                        IF m = 0 THEN 0 ELSE QuantLevel(w_group[i], m)]
           zero == PyFloat(0)                                        \* line 136
           f1 == [fr EXCEPT !.q_int = Append(@, q_int),
                            !.qweight_packed = Append(@, pack_i4(q_int))]
       IN IF ~HasTo(scale)
          THEN [f1 EXCEPT !.status = "AttributeError", !.line = 142]
          ELSE LET f2 == [f1 EXCEPT !.scales_list = Append(@, scale.num)]
               IN IF ~HasTo(zero)
                  THEN [f2 EXCEPT !.status = "AttributeError", !.line = 143]
                  ELSE FromLinearLoop(g + 1, groups, w, gs,
                           [f2 EXCEPT !.zeros_list = Append(@, zero.num)])

\* the frame of from_linear(linear, Q4Params(group_size = gs))
from_linear_frame(linear, gs) ==
    LET made == Q4Linear_init(linear.in_f, linear.out_f, linear.has_bias, gs)
    IN IF made.err # "none"
       THEN [NoFrame EXCEPT !.status = made.err, !.line = 118]
       ELSE FromLinearLoop(0, PyFloorDiv(linear.in_f * linear.out_f + gs - 1, gs),
                           linear.weight, gs, NoFrame)

\* the layer from_linear returns (lines 145-150) when its frame says it returned
from_linear_layer(linear, gs, fr) ==
    [Q4Linear_init(linear.in_f, linear.out_f, linear.has_bias, gs) EXCEPT
        !.qweight = Flatten(fr.qweight_packed),
        !.scales = fr.scales_list,
        !.zeros = fr.zeros_list]

(***************************************************************************)
(* dequantize_q4: element i of group g is unpacked[i] * scales[g] +         *)
(* zeros[g]; groups are read from unpacked at g * group_size.  A slice      *)
(* assignment whose sides differ in length raises, unless the right side    *)
(* has one element (broadcast).                                             *)
(***************************************************************************)
NoDeq == [status |-> "none", weight |-> <<>>]

RECURSIVE DequantLoop(_, _, _, _, _, _)
DequantLoop(g, unpacked, scales, zeros, gs, weight) ==
    IF g >= Len(scales) THEN [status |-> "ok", weight |-> weight]
    ELSE
    LET start == g * gs
        end == Min(start + gs, Len(unpacked))
        rhs == Slice(unpacked, start, end)
        lhs == SlicePos(Len(weight), start, end)
        lo == PyIndex(start, Len(weight))
    IN IF g >= Len(zeros) THEN [status |-> "IndexError", weight |-> weight]
       ELSE IF Len(rhs) # Cardinality(lhs) /\ Len(rhs) # 1
       THEN [status |-> "RuntimeError", weight |-> weight]
       ELSE DequantLoop(g + 1, unpacked, scales, zeros, gs,
                [i \in 1..Len(weight) |->
                    IF i \in lhs
                    THEN (IF Len(rhs) = 1 THEN rhs[1] ELSE rhs[i - lo]) * scales[g + 1]
                         + zeros[g + 1]
                    ELSE weight[i]])

\* one pass of the loop of dequantize_q4 (lines 184-187) for group g, from
\* the locals of the call: the status and the local weight after the pass
DequantPass(g, unpacked, scales, zeros, gs, weight) ==
    LET start == g * gs
        end == Min(start + gs, Len(unpacked))
        rhs == Slice(unpacked, start, end)
        lhs == SlicePos(Len(weight), start, end)
        lo == PyIndex(start, Len(weight))
    IN IF g >= Len(zeros) THEN [status |-> "IndexError", weight |-> weight]
       ELSE IF Len(rhs) # Cardinality(lhs) /\ Len(rhs) # 1
       THEN [status |-> "RuntimeError", weight |-> weight]
       ELSE [status |-> "ok",
             weight |-> [i \in 1..Len(weight) |->
                IF i \in lhs
                THEN (IF Len(rhs) = 1 THEN rhs[1] ELSE rhs[i - lo]) * scales[g + 1]
                     + zeros[g + 1]
                ELSE weight[i]]]

LayerAfterPassInPlace(layer, unpacked) ==
    [layer EXCEPT !.qweight = [i \in 1..Len(layer.qweight) |-> 0]]

\* the layer after a call or a pass of dequantize_q4: unpack_i4, .to(float32)
\* and the arithmetic of line 187 build new tensors, and the slice assignment
\* writes the local weight, so no buffer of the layer is written
LayerAfterPass(layer, unpacked) == layer

dequantize_q4(qweight, scales, zeros, group_size, out_f, in_f) ==
    DequantLoop(0, unpack_i4(qweight), scales, zeros, group_size,
                [i \in 1..(out_f * in_f) |-> 0])

\* Q4Linear.forward: the weight matrix it multiplies by
forward(layer) ==
    dequantize_q4(layer.qweight, layer.scales, layer.zeros, layer.group_size,
                  layer.out_features, layer.in_features)

(***************************************************************************)
(* save_q4_weights / load_q4_weights.  A file is the dict torch.load        *)
(* returns: the keys it holds (fields), the three buffers, the bias (None   *)
(* when bias_none) and qparams.group_size.                                  *)
(***************************************************************************)
StateKeys == {"qweight", "scales", "zeros", "bias", "qparams"}

NoFile ==
    [exists |-> FALSE, fields |-> {}, qweight |-> <<>>, scales |-> <<>>,
     zeros |-> <<>>, bias_none |-> TRUE, bias |-> <<>>, group_size |-> 0]

FileOf(layer) ==
    [exists |-> TRUE, fields |-> StateKeys, qweight |-> layer.qweight,
     scales |-> layer.scales, zeros |-> layer.zeros,
     bias_none |-> ~layer.has_bias, bias |-> layer.bias,
     group_size |-> layer.group_size]

\* save_q4_weights(module, path) with f the file at path before the call:
\* torch.save is called with the dict alone, without the file argument, and
\* raises TypeError before path.write_bytes is reached
save_q4_weights(module, f) == [err |-> "TypeError", file |-> f]

\* load_q4_weights(path) with f the file at path: the layer it returns, or
\* Raised(e).  The shape is rebuilt as (scales.numel(), group_size).
load_q4_weights(f) ==
    IF ~f.exists THEN Raised("FileNotFoundError")             \* line 220
    ELSE IF "qparams" \notin f.fields THEN Raised("KeyError") \* line 221
    ELSE IF "scales" \notin f.fields THEN Raised("KeyError")  \* line 223
    ELSE IF "bias" \notin f.fields THEN Raised("KeyError")    \* line 226
    ELSE LET layer == Q4Linear_init(f.group_size, Len(f.scales), ~f.bias_none,
                                    f.group_size)
         IN IF layer.err # "none" THEN layer
            ELSE IF "qweight" \notin f.fields THEN Raised("KeyError")   \* line 227
            ELSE IF "zeros" \notin f.fields THEN Raised("KeyError")     \* line 229
            ELSE [layer EXCEPT !.qweight = f.qweight, !.scales = f.scales,
                               !.zeros = f.zeros, !.bias = f.bias]

(***************************************************************************)
(* SpecCodec.  A run starts from int4 values (pack first), from bytes       *)
(* (unpack first), from a dense nn.Linear with a Q4Params, from a file at   *)
(* path (load first) or from buffers handed to dequantize_q4 directly.      *)
(***************************************************************************)
BufferBytes == {33}
Buffers(S) == UNION {[1..n -> S] : n \in 0..MaxFileLen}

Files ==
    {f \in [exists : {TRUE},
            fields : {StateKeys} \cup {StateKeys \ {k} : k \in StateKeys},
            qweight : Buffers(BufferBytes), scales : Buffers({7}),
            zeros : Buffers({0}), bias_none : BOOLEAN, bias : Buffers({0}),
            group_size : 1..MaxFileLen] :
        f.bias_none => f.bias = <<>>}

NoSessions ==
    [s \in 1..NumSessions |-> [pc |-> "idle", g |-> 0, unpacked |-> <<>>, weight |-> <<>>]]

NoCall ==
    [qweight |-> <<>>, scales |-> <<>>, zeros |-> <<>>, group_size |-> 0,
     out_f |-> 0, in_f |-> 0]

DequantizeArgs ==
    [qweight : Buffers(BufferBytes), scales : Buffers({7}), zeros : Buffers({0}),
     group_size : 1..MaxFileLen, out_f : 1..MaxFileLen, in_f : 1..MaxFileLen]

NoLinear == [weight |-> <<>>, out_f |-> 0, in_f |-> 0, has_bias |-> FALSE]

Shapes == {sh \in (1..MaxElems) \X (1..MaxElems) : sh[1] * sh[2] <= MaxElems}

Linears ==
    UNION {[weight : [1..(sh[1] * sh[2]) -> (-MaxW)..MaxW],
            out_f : {sh[1]}, in_f : {sh[2]}, has_bias : BOOLEAN] : sh \in Shapes}

GroupSizes == (-1)..MaxGroupSize

CodecInputs ==
    [kind : {"vals"}, data : SeqsUpTo(Int4, MaxVals) \ {<<>>},
     linear : {NoLinear}, group_size : {0}]
    \cup [kind : {"bytes"}, data : SeqsUpTo(Byte, MaxBytes) \ {<<>>},
          linear : {NoLinear}, group_size : {0}]
    \cup [kind : {"layer"}, data : {<<>>}, linear : Linears, group_size : GroupSizes]
    \cup [kind : {"file", "buffers"}, data : {<<>>}, linear : {NoLinear},
          group_size : {0}]

CodecInit ==
    /\ input \in CodecInputs
    /\ tensor = IF input.kind = "vals" THEN input.data ELSE <<>>
    /\ packed = IF input.kind = "bytes" THEN input.data ELSE <<>>
    /\ ops = <<>>
    /\ q_layer = NoLayer
    /\ fl = NoFrame
    /\ deq = NoDeq
    /\ disk \in IF input.kind = "file" THEN Files ELSE {NoFile}
    /\ io = <<>>
    /\ call = NoCall
    /\ sess = NoSessions

LastOp == IF ops = <<>> THEN "none" ELSE ops[Len(ops)]

\* packed = pack_i4(tensor)
Pack ==
    /\ Len(ops) < MaxOps
    /\ \/ input.kind = "vals" /\ ops = <<>>
       \/ LastOp = "unpack"
    /\ packed' = pack_i4(tensor)
    /\ ops' = Append(ops, "pack")
    /\ UNCHANGED <<input, tensor, q_layer, fl, deq>>
    /\ UNCHANGED <<store_vars, sess>>
    /\ UNCHANGED not_codec

\* tensor = unpack_i4(packed)
Unpack ==
    /\ Len(ops) < MaxOps
    /\ \/ input.kind = "bytes" /\ ops = <<>>
       \/ LastOp = "pack"
    /\ tensor' = unpack_i4(packed)
    /\ ops' = Append(ops, "unpack")
    /\ UNCHANGED <<input, packed, q_layer, fl, deq>>
    /\ UNCHANGED <<store_vars, sess>>
    /\ UNCHANGED not_codec

\* q_layer = Q4Linear(in_f, out_f, bias, qparams)
Construct ==
    /\ input.kind = "layer"
    /\ q_layer = NoLayer /\ fl = NoFrame
    /\ q_layer' = Q4Linear_init(input.linear.in_f, input.linear.out_f,
                                input.linear.has_bias, input.group_size)
    /\ UNCHANGED <<input, tensor, packed, ops, fl, deq>>
    /\ UNCHANGED <<store_vars, sess>>
    /\ UNCHANGED not_codec

\* q_layer = Q4Linear.from_linear(linear, qparams)
FromLinear ==
    /\ input.kind = "layer"
    /\ q_layer = NoLayer /\ fl = NoFrame
    /\ fl' = from_linear_frame(input.linear, input.group_size)
    /\ q_layer' = IF fl'.status = "returned"
                  THEN from_linear_layer(input.linear, input.group_size, fl')
                  ELSE q_layer
    /\ UNCHANGED <<input, tensor, packed, ops, deq>>
    /\ UNCHANGED <<store_vars, sess>>
    /\ UNCHANGED not_codec

\* q_layer.forward(x): dequantize_q4 on the layer's buffers
Forward ==
    /\ q_layer.err = "none"
    /\ deq = NoDeq
    /\ deq' = forward(q_layer)
    /\ UNCHANGED <<input, tensor, packed, ops, q_layer, fl>>
    /\ UNCHANGED <<store_vars, sess>>
    /\ UNCHANGED not_codec

\* save_q4_weights(q_layer, path)
Save ==
    /\ q_layer.err = "none"
    /\ io = <<>>
    /\ disk' = save_q4_weights(q_layer, disk).file
    /\ io' = Append(io, [op |-> "save", err |-> save_q4_weights(q_layer, disk).err,
                         layer |-> q_layer])
    /\ UNCHANGED <<input, tensor, packed, ops, q_layer, fl, deq, call, sess>>
    /\ UNCHANGED not_codec

\* q_layer = load_q4_weights(path)
Load ==
    /\ \/ input.kind = "file" /\ io = <<>>
       \/ io # <<>> /\ io[Len(io)].op = "save"
    /\ io' = Append(io, [op |-> "load", err |-> load_q4_weights(disk).err,
                         layer |-> load_q4_weights(disk)])
    /\ q_layer' = IF load_q4_weights(disk).err = "none"
                  THEN load_q4_weights(disk) ELSE q_layer
    /\ UNCHANGED <<input, tensor, packed, ops, fl, deq, disk, call, sess>>
    /\ UNCHANGED not_codec

\* dequantize_q4(qweight, scales, zeros, group_size, out_f, in_f) called directly
Dequantize ==
    /\ input.kind = "buffers"
    /\ call = NoCall
    /\ \E a \in DequantizeArgs :
          /\ call' = a
          /\ deq' = dequantize_q4(a.qweight, a.scales, a.zeros, a.group_size,
                                  a.out_f, a.in_f)
    /\ UNCHANGED <<input, tensor, packed, ops, q_layer, fl, disk, io, sess>>
    /\ UNCHANGED not_codec

(***************************************************************************)
(* Inference sessions sharing the loaded layer: each calls forward, and the *)
(* calls interleave pass by pass of the loop of dequantize_q4.              *)
(***************************************************************************)
\* session s enters forward: lines 178-183
FwdCall(s) ==
    /\ input.kind = "file" /\ q_layer.err = "none"
    /\ sess[s].pc = "idle"
    /\ sess' = [sess EXCEPT ![s] =
            [pc |-> "loop", g |-> 0, unpacked |-> unpack_i4(q_layer.qweight),
             weight |-> [i \in 1..(q_layer.out_features * q_layer.in_features) |-> 0]]]
    /\ q_layer' = LayerAfterPass(q_layer, unpack_i4(q_layer.qweight))
    /\ UNCHANGED <<input, tensor, packed, ops, fl, deq, store_vars>>
    /\ UNCHANGED not_codec

\* session s runs one pass of the loop (lines 184-187), or leaves it (line 188)
FwdPass(s) ==
    /\ sess[s].pc = "loop"
    /\ IF sess[s].g >= Len(q_layer.scales)
       THEN sess' = [sess EXCEPT ![s].pc = "returned"]
       ELSE LET r == DequantPass(sess[s].g, sess[s].unpacked, q_layer.scales,
                                 q_layer.zeros, q_layer.group_size, sess[s].weight)
            IN sess' = [sess EXCEPT ![s].pc = IF r.status = "ok" THEN "loop"
                                                ELSE r.status,
                                    ![s].g = @ + 1,
                                    ![s].weight = r.weight]
    /\ q_layer' = LayerAfterPass(q_layer, sess[s].unpacked)
    /\ UNCHANGED <<input, tensor, packed, ops, fl, deq, store_vars>>
    /\ UNCHANGED not_codec

CodecNext ==
    \/ \E s \in 1..NumSessions : FwdCall(s)
    \/ \E s \in 1..NumSessions : FwdPass(s)
    \/ Pack \/ Unpack \/ Construct \/ FromLinear \/ Forward
    \/ Save \/ Load \/ Dequantize

(***************************************************************************)
(* Logits.  A finite logit is a small integer; float('-inf'), float('inf')  *)
(* and nan are the three marks below.  nan is the largest mark because      *)
(* torch.topk and torch.sort order nan above every number, while every      *)
(* comparison with nan is False (FLt, FGt).                                 *)
(***************************************************************************)
NegInf == -1000
PosInf == 1000
NaN == 2000
LogitVals == (-1)..1
FLt(a, b) == a # NaN /\ b # NaN /\ a < b
FGt(a, b) == a # NaN /\ b # NaN /\ a > b
Idx(l) == 1..Len(l)

\* logits / temperature, temperature in {0, 1}: x / 0 is inf, -inf or nan
DivTemperature(l, temperature) ==
    [i \in Idx(l) |->
        IF temperature # 0 \/ l[i] \in {NegInf, PosInf, NaN} THEN l[i]
        ELSE IF l[i] > 0 THEN PosInf ELSE IF l[i] < 0 THEN NegInf ELSE NaN]

\* torch.topk(logits, k)[0][..., -1]: the k-th largest value
KthLargest(l, k) ==
    CHOOSE v \in {l[i] : i \in Idx(l)} :
        /\ Cardinality({i \in Idx(l) : l[i] > v}) < k
        /\ Cardinality({i \in Idx(l) : l[i] >= v}) >= k

(***************************************************************************)
(* LLMEngine._apply_top_k: every entry below the k-th largest value is set  *)
(* to -inf, k = min(top_k, vocabulary size).                                *)
(***************************************************************************)
apply_top_k(l, top_k) ==
    LET k == Min(top_k, Len(l))
        thr == KthLargest(l, k)
    IN [i \in Idx(l) |-> IF FLt(l[i], thr) THEN NegInf ELSE l[i]]

(***************************************************************************)
(* softmax.  exp is the table ExpW (1000 * e^x, rounded); a probability is  *)
(* ExpW(x) / SumW.  The result is nan in every entry when an entry is inf   *)
(* or nan or when all entries are -inf (x - max is then nan).               *)
(***************************************************************************)
ExpW(x) ==
    CASE x = NegInf -> 0
      [] x = -3 -> 50
      [] x = -2 -> 135
      [] x = -1 -> 368
      [] x = 0 -> 1000
      [] x = 1 -> 2718
      [] x = 2 -> 7389
      [] x = 3 -> 20086

SoftmaxIsNaN(l) ==
    \/ \E i \in Idx(l) : l[i] \in {PosInf, NaN}
    \/ \A i \in Idx(l) : l[i] = NegInf

RECURSIVE SumW(_)
SumW(l) == IF l = <<>> THEN 0 ELSE ExpW(Head(l)) + SumW(Tail(l))

\* torch.sort(logits, descending=True): the index orders it may return
\* (the order of equal entries is not specified)
SortedIndices(l) ==
    {perm \in [Idx(l) -> Idx(l)] :
        /\ \A i, j \in Idx(l) : i # j => perm[i] # perm[j]
        /\ \A i \in Idx(l) : i < Len(l) => l[perm[i]] >= l[perm[i + 1]]}

(***************************************************************************)
(* LLMEngine._apply_top_p under the index order perm: sorted entry i is     *)
(* removed iff the cumulative probability up to sorted entry i - 1 exceeds  *)
(* top_p (the mask is shifted right by one and its first entry cleared);    *)
(* the mask is scattered back through perm.  top_p is in hundredths.        *)
(***************************************************************************)
CumW(l, perm, i) == SumW([j \in 1..i |-> l[perm[j]]])

SortedRemoveUnshifted(l, perm, top_p, i) ==
    /\ ~SoftmaxIsNaN(l)
    /\ 100 * CumW(l, perm, i) > top_p * SumW(l)

SortedRemove(l, perm, top_p, i) ==
    /\ i > 1
    /\ ~SoftmaxIsNaN(l)
    /\ 100 * CumW(l, perm, i - 1) > top_p * SumW(l)

apply_top_p_unscattered(l, perm, top_p) ==
    [i \in Idx(l) |-> IF SortedRemove(l, perm, top_p, i) THEN NegInf ELSE l[i]]

apply_top_p(l, perm, top_p) ==
    [i \in Idx(l) |->
        IF \E s \in Idx(l) : perm[s] = i /\ SortedRemove(l, perm, top_p, s)
        THEN NegInf ELSE l[i]]

(***************************************************************************)
(* SpecFilter: the filters applied to a logits row, top-k then top-p as     *)
(* generate_worker applies them, or either one alone.                       *)
(***************************************************************************)
TopPs == {50, 95, 100}

FilterInit ==
    /\ f_in \in UNION {[1..n -> LogitVals] : n \in 1..VocabSize}
    /\ f_logits = f_in
    /\ f_top_k \in 1..MaxTopK
    /\ f_top_p \in TopPs
    /\ f_ops = <<>>

TopK ==
    /\ f_ops = <<>>
    /\ f_logits' = apply_top_k(f_logits, f_top_k)
    /\ f_ops' = Append(f_ops, "top_k")
    /\ UNCHANGED <<f_in, f_top_k, f_top_p>>
    /\ UNCHANGED not_filter

TopP ==
    /\ f_ops \in {<<>>, <<"top_k">>}
    /\ \E perm \in SortedIndices(f_logits) :
          f_logits' = apply_top_p(f_logits, perm, f_top_p)
    /\ f_ops' = Append(f_ops, "top_p")
    /\ UNCHANGED <<f_in, f_top_k, f_top_p>>
    /\ UNCHANGED not_filter

FilterNext == TopK \/ TopP

(***************************************************************************)
(* The stream.  A queue item is a text fragment or None, the end signal.    *)
(* queue.Queue is first in, first out.                                      *)
(***************************************************************************)
\* The thread a callable runs on.  generate and _generate_response are
\* coroutines of the event loop; threading.Thread(target=f).start() and
\* loop.run_in_executor(None, f, ...) run f on a thread of their own.
EventLoop == "event loop"

CalledInline(caller) == caller

Thread_start(caller) == "generate_worker thread"

run_in_executor(caller) == "executor thread"

Str(t) == [none |-> FALSE, text |-> t]
NoneAsEmptyText == [none |-> FALSE, text |-> ""]

None == [none |-> TRUE, text |-> ""]

\* token_queue.put(item)
QueuePut(q, item) == Append(q, item)

QueueGetNewest(q) == [item |-> q[Len(q)], rest |-> SubSeq(q, 1, Len(q) - 1)]

\* token_queue.get() on a non-empty queue: the oldest item, and what is left
QueueGet(q) == [item |-> Head(q), rest |-> Tail(q)]

\* tokenizer.decode(next_token, skip_special_tokens=True)
eos_token_id == 1
TokenText == <<"<eos>", "a", "b", "c", "d", "e">>
tokenizer_decode(id) == IF id = eos_token_id THEN "" ELSE TokenText[id]

\* f"[Ошибка: {str(e)}]" for the exception raised by e's source
ErrorText(e) ==
    CASE e = "tokenizer" -> "[Error: tokenizer]"
      [] e = "scorer" -> "[Error: scorer]"
      [] e = "sampler" -> "[Error: probability tensor contains inf, nan or element < 0]"
      [] e = "decode" -> "[Error: decode]"
      [] e = "cat" -> "[Error: cat]"

FlagKept(flag) == flag

\* finally: self.is_generating = False (chat_screen.py lines 104-105),
\* finally: self.generating = False (ui/app.py lines 207-208)
FlagAfterFinally(flag) == FALSE

\* what the except clause and the finally clause of generate_worker put
OnException(q, e) == QueuePut(q, Str(ErrorText(e)))

OnFinallyNoSignal(q) == q

OnFinally(q) == QueuePut(q, None)

(***************************************************************************)
(* One decode iteration up to the sample: divide by the temperature, apply  *)
(* top-k and top-p when set, softmax, multinomial.  Candidates(l) are the   *)
(* filtered rows the iteration can reach from the scorer's row l (one per   *)
(* sort order); multinomial raises on a nan row and otherwise may return    *)
(* any entry of positive probability.                                       *)
(***************************************************************************)
Filtered(l) ==
    LET scaled == DivTemperature(l, gen_params.temperature)
        k == IF gen_params.top_k # 0 THEN apply_top_k(scaled, gen_params.top_k)
             ELSE scaled
    IN IF gen_params.top_p # 0
       THEN {apply_top_p(k, perm, gen_params.top_p) : perm \in SortedIndices(k)}
       ELSE {k}

Support(probs) == {i \in Idx(probs) : probs[i] # NegInf}

ScorerRows == [1..VocabSize -> LogitVals]

(***************************************************************************)
(* SpecGen.                                                                 *)
(***************************************************************************)
GenParams ==
    [max_new_tokens : 0..MaxNewTokens, temperature : {0, 1},
     top_k : {0, 2}, top_p : {0, 95}]

GenInit ==
    /\ gen_params \in GenParams
    /\ consumer \in {"ChatScreen", "other"}
    /\ hpc = "idle"
    /\ is_generating = FALSE
    /\ response_text = <<>>
    /\ chat_messages = <<>>
    /\ notified = 0
    /\ gpc = "unstarted"
    /\ token_queue = <<>>
    /\ yielded = <<>>
    /\ last_get = Str("")
    /\ joined = FALSE
    /\ wpc = "unstarted"
    /\ wstep = 0
    /\ exc = "none"
    /\ enqueued = <<>>

\* ---------------------------------------------------------- generate_worker
Put(item) ==
    /\ token_queue' = QueuePut(token_queue, item)
    /\ enqueued' = Append(enqueued, item)

Raise(e) ==
    /\ wpc' = "except"
    /\ exc' = e
    /\ UNCHANGED <<wstep, enqueued, token_queue>>

SampledEosIgnored(next_token) == FALSE

\* line 87: next_token.item() == self.tokenizer.eos_token_id
SampledEos(next_token) == next_token = eos_token_id

RangeExhaustedAfterFirst(i, n) == i >= n /\ i >= 1

\* line 59: for _ in range(n) has no pass left after i passes
RangeExhausted(i, n) == i >= n

\* line 49: inputs = self.tokenizer(prompt, ...)
WorkerTokenize ==
    /\ wpc = "tokenize"
    /\ \/ wpc' = "loop" /\ UNCHANGED <<wstep, exc, enqueued, token_queue>>
       \/ Raise("tokenizer")
    /\ UNCHANGED <<gen_params, screen_vars, gpc, yielded, last_get, joined>>
    /\ UNCHANGED not_gen

\* lines 59-88: one pass of the for loop (or its end)
WorkerStep ==
    /\ wpc = "loop"
    /\ \/ /\ RangeExhausted(wstep, gen_params.max_new_tokens)
          /\ wpc' = "finally"
          /\ UNCHANGED <<wstep, exc, enqueued, token_queue, scorer_threads>>
       \/ /\ ~RangeExhausted(wstep, gen_params.max_new_tokens)
          /\ scorer_threads' = scorer_threads \cup {Thread_start(EventLoop)}  \* line 61
          /\ \/ Raise("scorer")                            \* self.model(...) raises
             \/ \E l \in ScorerRows : \E probs \in Filtered(l) :
                   IF SoftmaxIsNaN(probs)
                   THEN Raise("sampler")                   \* torch.multinomial raises
                   ELSE \E next_token \in Support(probs) :
                          \/ Raise("decode")               \* tokenizer.decode raises
                          \/ /\ Put(Str(tokenizer_decode(next_token)))
                             /\ wstep' = wstep + 1
                             /\ \/ /\ exc' = "cat"         \* line 84 or 87 raises
                                   /\ wpc' = "except"
                                \/ /\ exc' = exc
                                   /\ wpc' = IF SampledEos(next_token)
                                             THEN "finally" ELSE "loop"
    /\ UNCHANGED <<gen_params, screen_vars, gpc, yielded, last_get, joined>>
    /\ UNCHANGED <<codec_vars, filter_vars, ui_vars>>

\* lines 90-91: except Exception as e: token_queue.put(f"[Ошибка: ...]")
WorkerExcept ==
    /\ wpc = "except"
    /\ token_queue' = OnException(token_queue, exc)
    /\ enqueued' = OnException(enqueued, exc)
    /\ wpc' = "finally"
    /\ UNCHANGED <<wstep, exc>>
    /\ UNCHANGED <<gen_params, screen_vars, gpc, yielded, last_get, joined>>
    /\ UNCHANGED not_gen

\* lines 92-94: finally: token_queue.put(None); the thread ends
WorkerFinally ==
    /\ wpc = "finally"
    /\ token_queue' = OnFinally(token_queue)
    /\ enqueued' = OnFinally(enqueued)
    /\ wpc' = "terminated"
    /\ UNCHANGED <<wstep, exc>>
    /\ UNCHANGED <<gen_params, screen_vars, gpc, yielded, last_get, joined>>
    /\ UNCHANGED not_gen

\* ------------------------------------------------------- LLMEngine.generate
\* the consumer calls generate and asks for the first item
\* (ChatScreen.on_input_submitted, lines 71-94)
Submit ==
    /\ hpc = "idle" /\ ~is_generating
    /\ is_generating' = TRUE
    /\ chat_messages' = Append(chat_messages, [role |-> "user", content |-> <<"msg">>])
    /\ response_text' = <<>>
    /\ hpc' = "iterating"
    /\ gpc' = "start"
    /\ UNCHANGED <<gen_params, consumer, notified, token_queue, yielded, last_get,
                   joined, worker_vars>>
    /\ UNCHANGED not_gen

\* lines 42-98: the queue is created and the thread started
GenStart ==
    /\ gpc = "start"
    /\ wpc' = "tokenize"
    /\ gpc' = "poll"
    /\ UNCHANGED <<gen_params, screen_vars, token_queue, yielded, last_get, joined,
                   wstep, exc, enqueued>>
    /\ UNCHANGED not_gen

\* lines 103-106: token_queue.get returned an item
PollGet ==
    /\ gpc = "poll" /\ token_queue # <<>>
    /\ last_get' = QueueGet(token_queue).item
    /\ token_queue' = QueueGet(token_queue).rest
    /\ IF last_get'.none
       THEN gpc' = "join" /\ UNCHANGED yielded
       ELSE gpc' = "yield" /\ yielded' = Append(yielded, last_get'.text)
    /\ UNCHANGED <<gen_params, screen_vars, joined, worker_vars>>
    /\ UNCHANGED not_gen

\* lines 108-110: queue.Empty after the timeout: await asyncio.sleep(0.01)
PollEmpty ==
    /\ gpc = "poll" /\ token_queue = <<>>
    /\ gpc' = "sleep"
    /\ UNCHANGED <<gen_params, screen_vars, token_queue, yielded, last_get, joined,
                   worker_vars>>
    /\ UNCHANGED not_gen

\* the event loop resumes the coroutine after asyncio.sleep
Wake ==
    /\ gpc = "sleep"
    /\ gpc' = "poll"
    /\ UNCHANGED <<gen_params, screen_vars, token_queue, yielded, last_get, joined,
                   worker_vars>>
    /\ UNCHANGED not_gen

\* line 112: thread.join() returns once the worker thread has ended
Join ==
    /\ gpc = "join" /\ wpc = "terminated"
    /\ joined' = TRUE
    /\ gpc' = "returned"
    /\ UNCHANGED <<gen_params, screen_vars, token_queue, yielded, last_get,
                   worker_vars>>
    /\ UNCHANGED not_gen

\* ------------------------------------------------------------ the consumer
\* chat_screen.py lines 95-96 and 102-107: response_text += token, then
\* assistant_widget.update_content, which MessageWidget does not define:
\* AttributeError, caught by except Exception; finally clears the flag.  The
\* generator stays suspended at its yield.
BodyChatScreen ==
    /\ consumer = "ChatScreen" /\ hpc = "iterating" /\ gpc = "yield"
    /\ response_text' = Append(response_text, last_get.text)
    /\ notified' = notified + 1
    /\ is_generating' = FlagAfterFinally(is_generating)
    /\ hpc' = "done"
    /\ gpc' = "abandoned"
    /\ UNCHANGED <<gen_params, consumer, chat_messages, token_queue, yielded,
                   last_get, joined, worker_vars>>
    /\ UNCHANGED not_gen

\* another caller: its loop body succeeds and it asks for the next item
\* (generate continues with await asyncio.sleep(0), line 107)
BodyOther ==
    /\ consumer = "other" /\ hpc = "iterating" /\ gpc = "yield"
    /\ response_text' = Append(response_text, last_get.text)
    /\ gpc' = "sleep"
    /\ UNCHANGED <<gen_params, consumer, hpc, is_generating, chat_messages, notified,
                   token_queue, yielded, last_get, joined, worker_vars>>
    /\ UNCHANGED not_gen

\* another caller leaves its loop early or closes the generator: GeneratorExit
\* is raised at the yield, and generate ends without reaching line 112
CloseEarly ==
    /\ consumer = "other" /\ hpc = "iterating" /\ gpc = "yield"
    /\ is_generating' = FALSE
    /\ hpc' = "done"
    /\ gpc' = "closed"
    /\ UNCHANGED <<gen_params, consumer, response_text, chat_messages, notified,
                   token_queue, yielded, last_get, joined, worker_vars>>
    /\ UNCHANGED not_gen

\* chat_screen.py lines 98-107: the loop ended; the answer is persisted
AfterLoop ==
    /\ hpc = "iterating" /\ gpc = "returned"
    /\ chat_messages' = Append(chat_messages,
                               [role |-> "assistant", content |-> response_text])
    /\ is_generating' = FlagAfterFinally(is_generating)
    /\ hpc' = "done"
    /\ UNCHANGED <<gen_params, consumer, response_text, notified, stream_vars,
                   worker_vars>>
    /\ UNCHANGED not_gen

GenNext ==
    \/ Submit \/ GenStart \/ PollGet \/ PollEmpty \/ Wake \/ Join
    \/ BodyChatScreen \/ BodyOther \/ CloseEarly \/ AfterLoop
    \/ WorkerTokenize \/ WorkerStep \/ WorkerExcept \/ WorkerFinally

(***************************************************************************)
(* SpecUI: ChatUI (ui/app.py) over ModelInference.generate.  The key        *)
(* handlers and the _generate_response tasks run on the event loop, one at  *)
(* a time; every _generate_sync job runs on an executor thread and          *)
(* interleaves with them statement by statement.  A token is <<job, i>>,    *)
(* the i-th character the job's generator yields.                           *)
(***************************************************************************)
UIInit ==
    /\ generating = FALSE
    /\ current_response = <<>>
    /\ status = "Gotov"
    /\ ui_messages = <<>>
    /\ ui_errors = 0
    /\ tasks = <<>>
    /\ jobs = <<>>
    /\ cancelled = {}

Running(j) == jobs[j].pc \notin {"returned", "raised"}

\* Enter with a message: _send_message stores it and creates the task
Enter ==
    /\ Len(tasks) < MaxSends
    /\ ui_messages' = Append(ui_messages, [role |-> "user", content |-> <<>>])
    /\ tasks' = Append(tasks, [pc |-> "created", job |-> 0])
    /\ UNCHANGED <<generating, current_response, status, ui_errors, jobs, cancelled>>
    /\ UNCHANGED not_ui

\* _generate_response up to its await (lines 186-201)
TaskStart(t) ==
    /\ tasks[t].pc = "created"
    /\ \A u \in 1..(t - 1) : tasks[u].pc # "created"
    /\ IF generating
       THEN /\ tasks' = [tasks EXCEPT ![t].pc = "done"]
            /\ UNCHANGED <<generating, current_response, status, jobs>>
       ELSE /\ generating' = TRUE
            /\ current_response' = <<>>
            /\ status' = "Generatsiya..."
            /\ jobs' = Append(jobs, [pc |-> "next", len |-> 0, tok |-> 0,
                                     read |-> <<>>, steps |-> 0, at_cancel |-> -1])
            /\ tasks' = [tasks EXCEPT ![t].pc = "awaiting", ![t].job = Len(jobs) + 1]
    /\ UNCHANGED <<ui_messages, ui_errors, cancelled>>
    /\ UNCHANGED not_ui

\* _generate_response after its await (lines 203-209)
TaskResume(t) ==
    /\ tasks[t].pc = "awaiting"
    /\ ~Running(tasks[t].job)
    /\ IF jobs[tasks[t].job].pc = "raised"
       THEN ui_errors' = ui_errors + 1 /\ UNCHANGED ui_messages
       ELSE /\ UNCHANGED ui_errors
            /\ ui_messages' =
                  IF current_response # <<>>
                  THEN Append(ui_messages,
                              [role |-> "assistant", content |-> current_response])
                  ELSE ui_messages
    /\ generating' = FlagAfterFinally(generating)
    /\ status' = "Gotov"
    /\ tasks' = [tasks EXCEPT ![t].pc = "done"]
    /\ UNCHANGED <<current_response, jobs, cancelled>>
    /\ UNCHANGED not_ui

\* Ctrl-C (lines 135-140)
CtrlC ==
    /\ generating
    /\ generating' = FALSE
    /\ status' = "Generatsiya prervana"
    /\ cancelled' = cancelled \cup {j \in 1..Len(jobs) : Running(j)}
    /\ jobs' = [j \in 1..Len(jobs) |->
                  IF Running(j) /\ j \notin cancelled
                  THEN [jobs[j] EXCEPT !.at_cancel = jobs[j].steps] ELSE jobs[j]]
    /\ UNCHANGED <<current_response, ui_messages, ui_errors, tasks>>
    /\ UNCHANGED not_ui

\* _generate_sync: the for statement asks the generator for its next token.
\* The first request runs ModelInference.generate up to its first yield: the
\* whole response is computed there, n characters long: picked from the
\* canned answers of the dummy model (lines 45-60), or produced by
\* self.model.generate (lines 69-79), which the job then runs step by step
\* (JobScore), or the apology text of the except clause.
JobNext(j) ==
    /\ jobs[j].pc = "next"
    /\ \E n \in 0..MaxChars :
          LET len == IF jobs[j].tok = 0 THEN n ELSE jobs[j].len
          IN \/ jobs' = [jobs EXCEPT ![j].len = len,
                                     ![j].tok = IF jobs[j].tok < len THEN @ + 1 ELSE @,
                                     ![j].pc = IF jobs[j].tok < len THEN "check"
                                               ELSE "returned"]
             \/ /\ jobs[j].tok = 0
                /\ jobs' = [jobs EXCEPT ![j].len = len, ![j].pc = "generate"]
    /\ UNCHANGED <<generating, current_response, status, ui_messages, ui_errors,
                   tasks, cancelled>>
    /\ UNCHANGED not_ui

\* inference.py lines 69-89: self.model.generate runs its scoring steps, one
\* per new token, in a single call; then the response is decoded and its
\* first character yielded
JobScore(j) ==
    /\ jobs[j].pc = "generate"
    /\ IF jobs[j].steps < jobs[j].len
       THEN /\ jobs' = [jobs EXCEPT ![j].steps = @ + 1]
            /\ scorer_threads' = scorer_threads \cup {run_in_executor(EventLoop)}
       ELSE /\ jobs' = [jobs EXCEPT ![j].tok = IF jobs[j].len > 0 THEN 1 ELSE 0,
                                    ![j].pc = IF jobs[j].len > 0 THEN "check"
                                              ELSE "returned"]
            /\ UNCHANGED scorer_threads
    /\ UNCHANGED <<generating, current_response, status, ui_messages, ui_errors,
                   tasks, cancelled>>
    /\ UNCHANGED <<codec_vars, filter_vars, gen_vars>>

\* line 222: if not self.generating: break
JobCheck(j) ==
    /\ jobs[j].pc = "check"
    /\ jobs' = [jobs EXCEPT ![j].pc = IF generating THEN "read" ELSE "returned"]
    /\ UNCHANGED <<generating, current_response, status, ui_messages, ui_errors,
                   tasks, cancelled>>
    /\ UNCHANGED not_ui

\* line 225, first half: self.current_response is read
JobRead(j) ==
    /\ jobs[j].pc = "read"
    /\ jobs' = [jobs EXCEPT ![j].read = current_response, ![j].pc = "write"]
    /\ UNCHANGED <<generating, current_response, status, ui_messages, ui_errors,
                   tasks, cancelled>>
    /\ UNCHANGED not_ui

\* line 225, second half: the sum is stored
JobWrite(j) ==
    /\ jobs[j].pc = "write"
    /\ current_response' = Append(jobs[j].read, <<j, jobs[j].tok>>)
    /\ jobs' = [jobs EXCEPT ![j].pc = "notify"]
    /\ UNCHANGED <<generating, status, ui_messages, ui_errors, tasks, cancelled>>
    /\ UNCHANGED not_ui

\* lines 227-230: asyncio.get_event_loop() on an executor thread, which has
\* no event loop: RuntimeError, and the job ends with it
JobNotify(j) ==
    /\ jobs[j].pc = "notify"
    /\ jobs' = [jobs EXCEPT ![j].pc = "raised"]
    /\ UNCHANGED <<generating, current_response, status, ui_messages, ui_errors,
                   tasks, cancelled>>
    /\ UNCHANGED not_ui

UINext ==
    \/ Enter
    \/ CtrlC
    \/ \E t \in 1..Len(tasks) : TaskStart(t)
    \/ \E t \in 1..Len(tasks) : TaskResume(t)
    \/ \E j \in 1..Len(jobs) : JobNext(j)
    \/ \E j \in 1..Len(jobs) : JobScore(j)
    \/ \E j \in 1..Len(jobs) : JobCheck(j)
    \/ \E j \in 1..Len(jobs) : JobRead(j)
    \/ \E j \in 1..Len(jobs) : JobWrite(j)
    \/ \E j \in 1..Len(jobs) : JobNotify(j)

(***************************************************************************)
(* The four specifications.  Each starts the other parts at rest and never  *)
(* moves them.                                                              *)
(***************************************************************************)
NoInput == [kind |-> "none", data |-> <<>>, linear |-> NoLinear, group_size |-> 0]
NoParams == [max_new_tokens |-> 0, temperature |-> 1, top_k |-> 0, top_p |-> 0]

InitCodec ==
    /\ CodecInit
    /\ f_in = <<>> /\ f_logits = <<>> /\ f_top_k = 0 /\ f_top_p = 0 /\ f_ops = <<>>
    /\ gen_params = NoParams
    /\ consumer = "none" /\ hpc = "idle" /\ is_generating = FALSE
    /\ response_text = <<>> /\ chat_messages = <<>> /\ notified = 0
    /\ gpc = "unstarted" /\ token_queue = <<>> /\ yielded = <<>>
    /\ last_get = Str("") /\ joined = FALSE
    /\ wpc = "unstarted" /\ wstep = 0 /\ exc = "none" /\ enqueued = <<>>
    /\ generating = FALSE /\ current_response = <<>> /\ status = "Gotov"
    /\ ui_messages = <<>> /\ ui_errors = 0 /\ tasks = <<>> /\ jobs = <<>>
    /\ cancelled = {}
    /\ scorer_threads = {}

InitFilter ==
    /\ FilterInit
    /\ input = NoInput /\ tensor = <<>> /\ packed = <<>> /\ ops = <<>>
    /\ q_layer = NoLayer /\ fl = NoFrame /\ deq = NoDeq
    /\ disk = NoFile /\ io = <<>> /\ call = NoCall /\ sess = NoSessions
    /\ gen_params = NoParams
    /\ consumer = "none" /\ hpc = "idle" /\ is_generating = FALSE
    /\ response_text = <<>> /\ chat_messages = <<>> /\ notified = 0
    /\ gpc = "unstarted" /\ token_queue = <<>> /\ yielded = <<>>
    /\ last_get = Str("") /\ joined = FALSE
    /\ wpc = "unstarted" /\ wstep = 0 /\ exc = "none" /\ enqueued = <<>>
    /\ generating = FALSE /\ current_response = <<>> /\ status = "Gotov"
    /\ ui_messages = <<>> /\ ui_errors = 0 /\ tasks = <<>> /\ jobs = <<>>
    /\ cancelled = {}
    /\ scorer_threads = {}

InitGen ==
    /\ GenInit
    /\ input = NoInput /\ tensor = <<>> /\ packed = <<>> /\ ops = <<>>
    /\ q_layer = NoLayer /\ fl = NoFrame /\ deq = NoDeq
    /\ disk = NoFile /\ io = <<>> /\ call = NoCall /\ sess = NoSessions
    /\ f_in = <<>> /\ f_logits = <<>> /\ f_top_k = 0 /\ f_top_p = 0 /\ f_ops = <<>>
    /\ generating = FALSE /\ current_response = <<>> /\ status = "Gotov"
    /\ ui_messages = <<>> /\ ui_errors = 0 /\ tasks = <<>> /\ jobs = <<>>
    /\ cancelled = {}
    /\ scorer_threads = {}

InitUI ==
    /\ UIInit
    /\ input = NoInput /\ tensor = <<>> /\ packed = <<>> /\ ops = <<>>
    /\ q_layer = NoLayer /\ fl = NoFrame /\ deq = NoDeq
    /\ disk = NoFile /\ io = <<>> /\ call = NoCall /\ sess = NoSessions
    /\ f_in = <<>> /\ f_logits = <<>> /\ f_top_k = 0 /\ f_top_p = 0 /\ f_ops = <<>>
    /\ gen_params = NoParams
    /\ consumer = "none" /\ hpc = "idle" /\ is_generating = FALSE
    /\ response_text = <<>> /\ chat_messages = <<>> /\ notified = 0
    /\ gpc = "unstarted" /\ token_queue = <<>> /\ yielded = <<>>
    /\ last_get = Str("") /\ joined = FALSE
    /\ wpc = "unstarted" /\ wstep = 0 /\ exc = "none" /\ enqueued = <<>>
    /\ scorer_threads = {}

SpecCodec == InitCodec /\ [][CodecNext]_vars
SpecFilter == InitFilter /\ [][FilterNext]_vars
SpecGen == InitGen /\ [][GenNext]_vars
SpecUI == InitUI /\ [][UINext]_vars

(***************************************************************************)
(* Turns under fair scheduling.  A conversation is a ChatScreen over        *)
(* LLMEngine.generate or a ChatUI; the user may or may not submit or press  *)
(* Ctrl-C, while the event loop, the generate_worker thread and every       *)
(* executor job keep taking the steps they can take.                        *)
(***************************************************************************)
EventLoopStep ==
    \/ GenStart \/ PollGet \/ PollEmpty \/ Wake \/ Join
    \/ BodyChatScreen \/ BodyOther \/ CloseEarly \/ AfterLoop
    \/ \E t \in 1..Len(tasks) : TaskStart(t)
    \/ \E t \in 1..Len(tasks) : TaskResume(t)

WorkerThreadStep == WorkerTokenize \/ WorkerStep \/ WorkerExcept \/ WorkerFinally

ExecutorJobStep(j) ==
    /\ j <= Len(jobs)
    /\ \/ JobNext(j) \/ JobScore(j) \/ JobCheck(j) \/ JobRead(j) \/ JobWrite(j)
       \/ JobNotify(j)

InitTurns == InitGen \/ InitUI

OnScreen == consumer # "none"
OnChatUI == consumer = "none"

TurnsNext ==
    \/ OnScreen /\ Submit
    \/ OnScreen /\ GenStart
    \/ OnScreen /\ PollGet
    \/ OnScreen /\ PollEmpty
    \/ OnScreen /\ Wake
    \/ OnScreen /\ Join
    \/ OnScreen /\ BodyChatScreen
    \/ OnScreen /\ BodyOther
    \/ OnScreen /\ CloseEarly
    \/ OnScreen /\ AfterLoop
    \/ OnScreen /\ WorkerTokenize
    \/ OnScreen /\ WorkerStep
    \/ OnScreen /\ WorkerExcept
    \/ OnScreen /\ WorkerFinally
    \/ OnChatUI /\ Enter
    \/ OnChatUI /\ CtrlC
    \/ OnChatUI /\ \E t \in 1..Len(tasks) : TaskStart(t)
    \/ OnChatUI /\ \E t \in 1..Len(tasks) : TaskResume(t)
    \/ OnChatUI /\ \E j \in 1..Len(jobs) : JobNext(j)
    \/ OnChatUI /\ \E j \in 1..Len(jobs) : JobScore(j)
    \/ OnChatUI /\ \E j \in 1..Len(jobs) : JobCheck(j)
    \/ OnChatUI /\ \E j \in 1..Len(jobs) : JobRead(j)
    \/ OnChatUI /\ \E j \in 1..Len(jobs) : JobWrite(j)
    \/ OnChatUI /\ \E j \in 1..Len(jobs) : JobNotify(j)

SpecTurns ==
    /\ InitTurns
    /\ [][TurnsNext]_vars
    /\ WF_vars(OnScreen /\ EventLoopStep)
    /\ WF_vars(OnScreen /\ WorkerThreadStep)
    /\ WF_vars(OnChatUI /\ EventLoopStep)
    /\ \A j \in 1..MaxSends : WF_vars(OnChatUI /\ ExecutorJobStep(j))

(***************************************************************************)
(* Properties.                                                              *)
(***************************************************************************)
IsPrefix(a, b) == Len(a) <= Len(b) /\ SubSeq(b, 1, Len(a)) = a
Texts(items) == [i \in 1..Len(items) |-> items[i].text]
Fragments(items) == Texts(SelectSeq(items, LAMBDA it : ~it.none))
Sentinels(items) == {i \in 1..Len(items) : items[i].none}

\* C1 (SpecCodec): for int4 values v in [-8,7], unpack_i4(pack_i4(v)) is v
\* again (the pad element of an odd length aside).
C1_UnpackAfterPackIsIdentity ==
    (input.kind = "vals" /\ ops = <<"pack", "unpack">>)
        => SubSeq(tensor, 1, Len(input.data)) = input.data

\* C2 (SpecCodec): for bytes b, pack_i4(unpack_i4(b)) is b again.
C2_PackAfterUnpackIsIdentity ==
    (input.kind = "bytes" /\ ops = <<"unpack", "pack">>) => packed = input.data

\* C3 (SpecCodec): for group_size > 0, from_linear(W) returns buffers from
\* which dequantize_q4 reconstructs every element as the level from_linear
\* computed for it times its group's scale, within scale / 2 of W.
\* (Elements are in sevenths: 7 * w against level * m, scale = m / 7.)
C3_DequantizeRestoresLevels ==
    (input.kind = "layer" /\ input.group_size > 0 /\ fl # NoFrame) =>
        /\ fl.status = "returned"
        /\ LET d == forward(q_layer)
               levels == Flatten(fl.q_int)
               w == input.linear.weight
               scale(i) == q_layer.scales[((i - 1) \div input.group_size) + 1]
           IN /\ d.status = "ok"
              /\ \A i \in 1..Len(w) :
                    /\ d.weight[i] = levels[i] * scale(i)
                    /\ 2 * Abs(qmax * w[i] - d.weight[i]) <= scale(i)

\* C4 (SpecGen): the fragments generate yields are the fragments
\* generate_worker enqueued, in the same order: always a prefix of them, and
\* all of them once the consumer has taken the end signal.
C4_YieldedIsEnqueued ==
    /\ IsPrefix(yielded, Fragments(enqueued))
    /\ gpc \in {"join", "returned"} => yielded = Fragments(enqueued)

C4_Witness ==
    /\ gpc = "returned"
    /\ joined
    /\ exc = "none"
    /\ yielded = <<"b", "a">>
    /\ Fragments(enqueued) = yielded

\* C5 (SpecGen): in every run of generate_worker the worker enqueues exactly
\* one end signal, and it is the last item it enqueues.
C5_OneSentinelLast ==
    /\ Cardinality(Sentinels(enqueued)) <= 1
    /\ \A i \in Sentinels(enqueued) : i = Len(enqueued)
    /\ wpc = "terminated" => Sentinels(enqueued) = {Len(enqueued)}
    /\ wpc \notin {"terminated", "unstarted"} => Sentinels(enqueued) = {}

C5_Witness ==
    /\ wpc = "terminated"
    /\ exc = "cat"
    /\ Len(enqueued) = 3

\* C6 (SpecGen): when generate_worker caught an exception, the consumer that
\* drained the stream received the failure as an end signal other than the
\* one that ends a successful run, and not as a content fragment.
C6_ErrorIsATaggedSentinel ==
    (exc # "none" /\ gpc \in {"join", "returned"}) =>
        /\ last_get # None
        /\ \A i \in 1..Len(yielded) : yielded[i] # ErrorText(exc)

\* C7 (SpecUI): a generation that was cancelled ends with an outcome tagged
\* Cancelled, which its consumer can tell from a completed and from a failed
\* one, and appends no token once the cancellation is honoured.
Outcome(j) ==
    CASE jobs[j].pc = "returned" -> "Success"    \* run_in_executor's future: None
      [] jobs[j].pc = "raised" -> "Error"        \* run_in_executor's future: raises
      [] OTHER -> "Running"

C7_CancelledSentinel ==
    \A j \in cancelled : ~Running(j) => Outcome(j) = "Cancelled"

\* C8 (SpecGen): when the call of generate that on_input_submitted iterates
\* has ended for it (drained, or left early by an exception in the loop body),
\* the generate_worker thread has terminated and been joined.
C8_ProducerJoined ==
    (consumer = "ChatScreen" /\ hpc = "done") => (wpc = "terminated" /\ joined)

\* C9 (SpecGen): with temperature = 0 the sampler picks the argmax token and
\* never fails.
C9_ZeroTemperatureSamples ==
    gen_params.temperature = 0 => exc # "sampler"

\* C10 (SpecFilter): _apply_top_k leaves exactly min(top_k, vocab_size)
\* entries unmasked and sets every other entry to -inf.
C10_TopKKeepsExactlyK ==
    (f_ops = <<"top_k">> /\ f_top_k >= 1) =>
        /\ Cardinality({i \in Idx(f_logits) : f_logits[i] # NegInf})
              = Min(f_top_k, Len(f_in))
        /\ \A i \in Idx(f_logits) : f_logits[i] \in {NegInf, f_in[i]}
\* the row _apply_top_p was applied to
TopPInput == IF f_ops = <<"top_p">> THEN f_in ELSE apply_top_k(f_in, f_top_k)

\* C11 (SpecFilter): for a logits row with a finite entry and top_p in (0,1],
\* _apply_top_p leaves a highest-logit entry unmasked, also when that entry's
\* probability alone exceeds top_p.
C11_TopPKeepsTheTop ==
    (f_ops # <<>> /\ f_ops[Len(f_ops)] = "top_p") =>
        \E i \in Idx(f_logits) :
            /\ \A j \in Idx(f_logits) : TopPInput[j] <= TopPInput[i]
            /\ f_logits[i] = TopPInput[i]
            /\ f_logits[i] # NegInf

C11_Witness ==
    /\ f_ops = <<"top_p">>
    /\ f_top_p = 50
    /\ f_in = <<1, -1, -1>>
    /\ f_logits = <<1, NegInf, NegInf>>

CeilDiv(a, b) == (a + b - 1) \div b

\* C13 (SpecCodec): save_q4_weights of a layer with positive group_size
\* followed by load_q4_weights of the saved file gives a layer with the same
\* packed bytes, scales, zeros and shape, and neither call raises.
C13_SaveLoadRoundTrip ==
    \A i \in 1..Len(io) :
        (io[i].op = "save" /\ io[i].layer.group_size > 0) =>
            /\ io[i].err = "none"
            /\ disk = FileOf(io[i].layer)
            /\ i < Len(io) =>
                  /\ io[i + 1].err = "none"
                  /\ io[i + 1].layer.qweight = io[i].layer.qweight
                  /\ io[i + 1].layer.scales = io[i].layer.scales
                  /\ io[i + 1].layer.zeros = io[i].layer.zeros
                  /\ io[i + 1].layer.out_features = io[i].layer.out_features
                  /\ io[i + 1].layer.in_features = io[i].layer.in_features

\* C14 (SpecCodec): after from_linear on a rows x cols matrix with positive
\* group_size, qweight has exactly ceil(rows * cols / 2) bytes.
C14_PackedLength ==
    (input.kind = "layer" /\ input.group_size > 0 /\ fl # NoFrame) =>
        /\ q_layer.err = "none"
        /\ Len(q_layer.qweight)
              = CeilDiv(input.linear.out_f * input.linear.in_f, 2)

\* C15 (SpecCodec): constructing or quantizing a Q4Linear with
\* group_size <= 0 never returns a layer.
C15_NonPositiveGroupSizeRejected ==
    (input.kind = "layer" /\ input.group_size <= 0) =>
        /\ q_layer.err # "none"
        /\ fl.status # "returned"

\* C16 (SpecCodec): dequantize_q4 never returns a weight matrix when the
\* packed buffer length differs from ceil(rows*cols/2) or the scale or zero
\* array length differs from ceil(rows*cols/group_size).
CorruptCall(a) ==
    LET n == a.out_f * a.in_f
    IN \/ Len(a.qweight) # CeilDiv(n, 2)
       \/ Len(a.scales) # CeilDiv(n, a.group_size)
       \/ Len(a.zeros) # CeilDiv(n, a.group_size)

C16_CorruptBuffersRejected ==
    (call # NoCall /\ CorruptCall(call)) => deq.status # "ok"

\* C17 (SpecCodec): load_q4_weights returns no layer for a payload that lacks
\* a field or whose lengths violate: packed = ceil(rows*cols/2), scales =
\* zeros = ceil(rows*cols/group_size), bias = rows (rows x cols being the
\* shape the loader rebuilds, scales.numel() x group_size).
BadPayload(f) ==
    LET rows == Len(f.scales)
        cols == f.group_size
    IN \/ f.fields # StateKeys
       \/ Len(f.qweight) # CeilDiv(rows * cols, 2)
       \/ Len(f.zeros) # Len(f.scales)
       \/ ~f.bias_none /\ Len(f.bias) # rows

C17_BadPayloadRejected ==
    \A i \in 1..Len(io) :
        (input.kind = "file" /\ io[i].op = "load" /\ BadPayload(disk)) =>
            io[i].err # "none"

\* C19 (SpecTurns): whenever the in-progress flag (ChatScreen.is_generating,
\* ChatUI.generating) is True it becomes False later, and it only becomes
\* True by a submission (on_input_submitted, _generate_response).
C19_FlagClears ==
    /\ is_generating ~> ~is_generating
    /\ generating ~> ~generating
    /\ [][(~is_generating /\ is_generating') => Submit]_vars
    /\ [][(~generating /\ generating') => \E t \in 1..Len(tasks) : TaskStart(t)]_vars

C19_Witness ==
    /\ consumer = "ChatScreen"
    /\ hpc = "done"
    /\ exc # "none"
    /\ notified = 1
    /\ ~is_generating

\* C18 (SpecUI): when a generation has failed after fragments were delivered
\* (appended to current_response), the assistant message persisted for that
\* turn contains those fragments.
Delivered(j) == {<<j, i>> : i \in 1..jobs[j].tok}

C18_StreamedContentPersisted ==
    \A t \in 1..Len(tasks) :
        (tasks[t].pc = "done" /\ tasks[t].job # 0
         /\ jobs[tasks[t].job].pc = "raised") =>
            \E k \in 1..Len(ui_messages) :
                /\ ui_messages[k].role = "assistant"
                /\ \A tok \in Delivered(tasks[t].job) :
                      \E p \in 1..Len(ui_messages[k].content) :
                          ui_messages[k].content[p] = tok

\* C20 (SpecUI): at no point do two _generate_sync executor jobs of one ChatUI
\* run at the same time.
C20_OneProducerAtATime ==
    Cardinality({j \in 1..Len(jobs) : Running(j)}) <= 1

\* C21 (SpecCodec): forward calls of concurrent sessions, however their
\* passes interleave, leave qweight, scales, zeros, bias and group_size of
\* the shared layer as load_q4_weights returned them, and every call that
\* returns gives the weight a call running alone gives.
C21_ForwardLeavesLayerUnchanged ==
    (input.kind = "file" /\ io # <<>> /\ io[1].err = "none") =>
        /\ q_layer = io[1].layer
        /\ \A s \in 1..NumSessions :
              sess[s].pc = "returned" =>
                  /\ forward(io[1].layer).status = "ok"
                  /\ sess[s].weight = forward(io[1].layer).weight

C21_Witness ==
    /\ \A s \in 1..NumSessions : sess[s].pc = "returned"
    /\ Len(q_layer.qweight) = 2
    /\ Len(q_layer.scales) = 2
    /\ q_layer.group_size = 2
    /\ sess[1].weight = <<-49, -42, -49, -42>>

\* the length of the smallest prefix of the descending order perm of l whose
\* cumulative probability exceeds top_p (all of l when none does)
NucleusSize(l, perm, top_p) ==
    LET over == {m \in Idx(l) : 100 * CumW(l, perm, m) > top_p * SumW(l)}
    IN IF over = {} THEN Len(l) ELSE CHOOSE m \in over : \A k \in over : m <= k

\* C22 (SpecFilter): _apply_top_p keeps exactly the smallest prefix of the
\* descending order whose cumulative probability exceeds top_p and sets
\* every other entry to -inf, at the entries' original positions.
C22_TopPKeepsSmallestPrefix ==
    (f_ops # <<>> /\ f_ops[Len(f_ops)] = "top_p") =>
        \E perm \in SortedIndices(TopPInput) :
            \A s \in Idx(f_logits) :
                f_logits[perm[s]] =
                    IF s <= NucleusSize(TopPInput, perm, f_top_p)
                    THEN TopPInput[perm[s]] ELSE NegInf

C22_Witness ==
    /\ f_ops = <<"top_p">>
    /\ f_top_p = 50
    /\ f_in = <<-1, 1, 1>>
    /\ f_logits = <<NegInf, 1, 1>>

\* the fragments the decode loop has enqueued (line 81): every item but the
\* end signal and the text the except clause enqueues
LoopItems ==
    SelectSeq(enqueued,
              LAMBDA it : ~it.none /\ (exc = "none" \/ it.text # ErrorText(exc)))

C24_CancelWithinOneStep ==
    \A j \in cancelled : jobs[j].steps <= jobs[j].at_cancel + 1

\* C25 (SpecCodec): for every positive group_size, odd sizes and an odd
\* element count included, dequantize_q4 on the buffers of a rows x cols layer
\* reads each element at the nibble where it was stored and returns exactly
\* rows * cols elements without error.
C25_DequantizeReadsEveryElement ==
    (input.kind = "layer" /\ input.group_size > 0
     /\ q_layer.err = "none" /\ deq # NoDeq) =>
        /\ deq.status = "ok"
        /\ Len(deq.weight) = input.linear.out_f * input.linear.in_f

\* C26 (SpecCodec): from_linear on a dense layer with group_size > 0 returns
\* a layer and raises nothing, an all-zero group included; the layer has
\* ceil(rows * cols / group_size) scales and as many zero-points, all 0.
C26_FromLinearReturnsLayer ==
    (input.kind = "layer" /\ input.group_size > 0 /\ fl # NoFrame) =>
        /\ fl.status = "returned"
        /\ Len(q_layer.scales)
              = CeilDiv(input.linear.out_f * input.linear.in_f, input.group_size)
        /\ Len(q_layer.zeros) = Len(q_layer.scales)
        /\ \A g \in 1..Len(q_layer.zeros) : q_layer.zeros[g] = 0

\* C27 (SpecCodec): every level from_linear computes lies in [-8, 7] before
\* it is packed, and every value unpack_i4 returns lies in [-8, 7].
C27_LevelsInRange ==
    /\ \A g \in 1..Len(fl.q_int) :
          \A i \in 1..Len(fl.q_int[g]) : fl.q_int[g][i] \in qmin..qmax
    /\ (ops # <<>> /\ LastOp = "unpack") =>
          \A i \in 1..Len(tensor) : tensor[i] \in qmin..qmax

C27_Witness ==
    /\ input.kind = "bytes"
    /\ ops = <<"unpack">>
    /\ tensor = <<qmin, qmax>>

\* C28 (SpecTurns): every call of the scorer runs on the generate_worker
\* thread or on an executor job, never on the event-loop thread, and the
\* event-loop side of LLMEngine.generate (queue polling, sleeping, the join)
\* makes no scorer call and no step of the worker.
C28_ScorerOffEventLoop ==
    /\ [](scorer_threads \subseteq {Thread_start(EventLoop), run_in_executor(EventLoop)}
          /\ EventLoop \notin scorer_threads)
    /\ [][(GenStart \/ PollGet \/ PollEmpty \/ Wake \/ Join) =>
             UNCHANGED <<wstep, exc, enqueued, scorer_threads>>]_vars

C28_Witness ==
    /\ gpc = "returned"
    /\ wstep = MaxNewTokens
    /\ scorer_threads = {"generate_worker thread"}

\* C29 (SpecUI): once Ctrl-C has cancelled a generation, no token of that
\* generation is in current_response of a later generation (the one started
\* by a later _generate_response, which emptied current_response).
C29_NoTokenOfCancelledJob ==
    \A j \in cancelled :
        j < Len(jobs) =>
            \A p \in 1..Len(current_response) : current_response[p][1] # j

\* C30 (SpecTurns): when the worker thread and the event loop keep taking
\* their steps (every tokenizer and scorer call returns or raises), a started
\* generate whose consumer keeps iterating finishes: the worker enqueues the
\* end signal and terminates, the polling loop takes it and thread.join()
\* returns; generate does not poll an empty queue forever.
C30_GenerateFinishes ==
    (consumer # "none" /\ gpc \in {"start", "poll", "sleep", "yield", "join"}) ~>
        \/ /\ gpc = "returned" /\ joined /\ wpc = "terminated"
           /\ last_get = None /\ token_queue = <<>>
        \/ gpc \in {"abandoned", "closed"}      \* the consumer stopped iterating

C30_Witness ==
    /\ consumer = "other"
    /\ gpc = "returned" /\ joined /\ wpc = "terminated"
    /\ last_get = None
    /\ Len(response_text) = MaxNewTokens

====
